---- MODULE Spec2Model ----
(***************************************************************************)
(* Protocol connector layer of obsrv: the pooled-TCP connector             *)
(* (PilarConnector / PilarConnection, protocols/pilar/pilar_connector.py)  *)
(* and the UDP datagram connector (IrisCcdConnector / IrisCcdProtocol,     *)
(* protocols/iris_ccd/iris_ccd_connector.py).                              *)
(*                                                                         *)
(* Every coroutine is cut at its suspension points: one action is the code *)
(* that runs between two awaits that can suspend (asyncio is cooperative). *)
(* Queue.put on the unbounded queues, an uncontended Lock.acquire and the  *)
(* finally blocks do not suspend and are part of the step that reaches     *)
(* them; wait_for(queue.get()), readline, gather, wait_closed and a        *)
(* contended Lock.acquire do.                                              *)
(***************************************************************************)
EXTENDS Integers, Sequences, FiniteSets, TLC

(* ------------------------------ bounds -------------------------------- *)

\* concurrently running callers of get/put on the pooled-TCP connector
NumTasks == 2
\* get/put invocations in one behaviour
MaxCmds == 3
\* response lines that collect unread on one stream
MaxLines == 1
\* concurrently running callers of connect()/disconnect()
NumCallers == 2
\* connect() calls in one behaviour
MaxConnects == 2
\* TCP sessions opened in one behaviour
MaxSessions == 4
\* streams the device closes in one behaviour
MaxPeerCloses == 1

\* concurrently running callers of get/put on the UDP connector
NumIrisTasks == 2
\* get/put invocations on the UDP connector in one behaviour
MaxIrisCmds == 3
\* connect() calls on the UDP connector in one behaviour
MaxIrisConnects == 2
\* characters in a line the peer sends
MaxLineLen == 4
\* characters in a command text of the UDP connector
MaxCommandLen == 2
\* bytes of a received datagram behind its first part
MaxTailLen == 3

(* ------------------------- configuration ------------------------------ *)

\* Python's None for cmd_id, and for conn
None == 0 - 1
NoConn == 0

\* asyncio.Queue() as built in __init__: maxsize defaults to 0 (unbounded)
QueueMaxsize == 0

Tasks == 1..NumTasks
Callers == 1..NumCallers
Conns == 1..MaxSessions

\* (settings.connection_pool_size, settings.id_pool_range) of the configurations
\* looked at
Configs == {<<2, <<0, 1>>>>, <<1, <<1, 2>>>>}
MaxPoolSize == 2
Slots == 1..MaxPoolSize

\* caller-side variables of the command map, and one the map does not hold
Variables == {"ra", "temp"}
UnknownVariable == "bogus"

\* mappings.commands[kind][variable] -> pilar command variable
command_map == [v \in Variables |-> IF v = "ra" THEN "MOUNT.RA" ELSE "SENSOR.TEMP"]

\* mappings.resource_locks: key -> resource name. One entry is keyed by the
\* pilar command variable (the value of the command map), one by the variable
\* callers pass (the key of the command map).
resource_lock_map ==
    [c \in {"MOUNT.RA", "temp"} |-> IF c = "MOUNT.RA" THEN "mount" ELSE "sensor"]

\* actions of the configuration: function -> steps; a value "{name}" is a
\* placeholder for the keyword argument `name` of call()
actions_map ==
    [f \in {"goto"} |-> <<[variable |-> "ra", value |-> "{x}"],
                          [variable |-> "temp", value |-> "{y}"]>>]
UnknownFunction == "bogus"

\* the keyword arguments call() is given
DataSets == {{}, {"x"}, {"x", "y"}}

\* set(self._resource_lock_map.values())
Resources == {resource_lock_map[c] : c \in DOMAIN resource_lock_map}

VARIABLES
    pool_size,        \* self._pool_size
    id_range,         \* self._id_range = (lo, hi)
    connected,        \* self._connected
    connection_pool,  \* self._connection_pool, FIFO
    id_pool,          \* self._id_pool, FIFO
    resource_locks,   \* self._resource_locks: resource -> holding task, 0 free
    task,             \* per caller of get/put: where it is, and its locals
    result,           \* what the get/put that ended last returned
    ncmd,             \* get/put invocations so far
    sock,             \* per TCP session: "none" (not opened), "open", "closed"
    rx,               \* per session: lines sent by the peer, not yet read
    peer,             \* per session: requests the peer has not answered
    peer_eof,         \* sessions whose stream the peer closed
    ctl,              \* per caller of connect/disconnect: where it is
    slot,             \* per connect() call: its _create_pooled_connection tasks
    nconnect,         \* connect() calls so far
    iris_connected,   \* IrisCcdConnector._connected
    iris_transport,   \* IrisCcdConnector._transport: "None" or "open"
    response_future,  \* IrisCcdProtocol.response_future: its state and awaiter
    iris_lock,        \* IrisCcdConnector._lock: holding task, 0 free
    iris_task,        \* per caller of get/put on the UDP connector: where it is
    iris_result,      \* what the get/put that ended last returned
    device,           \* requests the camera has received and not answered
    niris,            \* <<get/put invocations, connect() calls>> so far
    probe             \* one call of a function looked at on its own: its
                      \* arguments, its locals and what it gave

cfg == <<pool_size, id_range>>
wire == <<rx, peer, peer_eof>>
life == <<ctl, slot, nconnect>>

pilar_vars == <<pool_size, id_range, connected, connection_pool, id_pool,
                resource_locks, task, result, ncmd, sock, rx, peer, peer_eof, ctl,
                slot, nconnect>>

iris_vars == <<iris_connected, iris_transport, response_future, iris_lock, iris_task,
               iris_result, device, niris>>

vars == <<pilar_vars, iris_vars, probe>>

(* ------------------------------ helpers ------------------------------- *)

\* the call() a put belongs to: its function, the step it is at and its keyword
\* arguments; as bookkeeping the steps whose request was written, in order, and
\* how the put of each finished step ended
NoCall ==
    [fn |-> "none", step |-> 0, data |-> {}, sent |-> <<>>, outcome |-> <<>>,
     response |-> "none"]

\* waited is bookkeeping: the command found the connection pool empty when it
\* began to wait for a Connection
IdleTask == [pc |-> "idle", op |-> "none", variable |-> "none", lock |-> "none",
             cmd_id |-> None, conn |-> NoConn, value |-> "none", waited |-> FALSE,
             broken |-> FALSE, call |-> NoCall]

\* op, exc: the operation that ended and the exception behind its result ("none":
\* it succeeded); value, by: whether the value line and the terminal line behind
\* it answered this very command ("own") or a command that had ended ("stale")
NoResult == [op |-> "none", exc |-> "none", value |-> "none", by |-> "none",
             call |-> NoCall]

\* range(self._id_range[0], self._id_range[1] + 1)
IdRangeSeq(r) == [i \in 1..(r[2] - r[1] + 1) |-> r[1] + i - 1]

Count(seq, x) == Cardinality({i \in 1..Len(seq) : seq[i] = x})

\* asyncio.Queue.full()
Full(q) == IF QueueMaxsize <= 0 THEN FALSE ELSE Len(q) >= QueueMaxsize

\* truth value of `if cmd_id:` for an int or None
TruthyId(x) == x # None /\ x # 0

\* truth value of `if conn:` for a PilarConnection or None
TruthyConn(c) == c # NoConn

\* a release that puts the Connection into the pool twice
PutBackConnTwice(pool, c) == IF TruthyConn(c) THEN Append(Append(pool, c), c) ELSE pool

\* finally: if conn: await self._connection_pool.put(conn)
PutBackConn(pool, c) == IF TruthyConn(c) THEN Append(pool, c) ELSE pool

\* finally: if cmd_id: await self._id_pool.put(cmd_id)
PutBackId(pool, i) == IF TruthyId(i) THEN Append(pool, i) ELSE pool

\* resource_name = self._resource_lock_map.get(pilar_cmd_variable);
\* lock = self._resource_locks.get(resource_name) if resource_name else None
LockFor(pilar_cmd) ==
    IF pilar_cmd \in DOMAIN resource_lock_map /\ resource_lock_map[pilar_cmd] \in Resources
    THEN resource_lock_map[pilar_cmd] ELSE "none"

\* the lock get() runs under: it calls _execute_on_pooled_connection directly
GetLock(v) == "none"

\* a put that calls _execute_on_pooled_connection directly, under no lock
PutUnlocked(v) == "none"

\* a put that takes one mutex whatever its variable is
PutLockShared(v) == CHOOSE r \in Resources : TRUE

\* the lock put() runs under: _execute_command_safely(pilar_cmd, ...)
PutLock(v) == LockFor(command_map[v])

\* an `async with lock` that never gives the lock back
KeepLock(locks, t) == locks

\* async with lock: __aexit__
Unlock(locks, t) == [r \in Resources |-> IF locks[r] = t THEN 0 ELSE locks[r]]

\* callers are interchangeable: a new invocation runs as the first idle one
FirstIdle(t) == task[t].pc = "idle" /\ \A u \in Tasks : u < t => task[u].pc # "idle"

\* the exception classes the model raises that `except Exception` catches
\* (CancelledError is a BaseException)
Exceptions == {"KeyError", "ValueError", "RuntimeError", "OSError", "TimeoutError",
               "ConnectionError", "ConnectionAbortedError"}

\* what get / put hand to the caller for the exception `exc` ("none": no exception)
\* and, without exception, for the string execute() returned; "raise": the
\* exception leaves get / put
Returned(op, exc, val) ==
    IF exc = "none"
    THEN (IF op = "get" THEN (IF val = "none" THEN "OK" ELSE "value") ELSE "status_ok")
    ELSE IF exc \in Exceptions
    THEN (IF op = "get" THEN "None" ELSE "status_failed")
    ELSE "raise"

\* bookkeeping, not program state: the requests and lines that answer the command
\* of caller t are marked as answers to a command that has ended (owner 0)
Ended(items, t) == {[q EXCEPT !.owner = IF @ = t THEN 0 ELSE @] : q \in items}
EndedLines(lines, t) ==
    [i \in 1..Len(lines) |-> [lines[i] EXCEPT !.owner = IF @ = t THEN 0 ELSE @]]

Origin(t, line) == IF line.owner = t THEN "own" ELSE "stale"

(* --------------------- PilarConnector.get / put ----------------------- *)

\* step_value.startswith('{') and step_value.endswith('}'); step_value.strip('{}')
Placeholder(value) == value \in {"{x}", "{y}"}
ArgName(value) == IF value = "{x}" THEN "x" ELSE "y"

\* asyncio.Lock.acquire() suspends when the lock is held or others wait for it
Contended(lock, locks, t) ==
    locks[lock] # 0 \/ \E u \in Tasks \ {t} : task[u].pc = "wait_lock" /\ task[u].lock = lock

\* a loop that leaves out the step after the one that ended
AdvanceSkipping(c, exc) == [c EXCEPT !.step = @ + 2, !.outcome = Append(@, exc)]

\* the step of a call() is over: its put ended with `exc`
Advance(c, exc) == [c EXCEPT !.step = @ + 1, !.outcome = Append(@, exc)]

RECURSIVE RunSteps(_, _, _)
RECURSIVE Settle(_, _, _, _, _, _, _)
RECURSIVE EnterExecute(_, _, _, _, _, _)

\* What the coroutine of caller t does after its get/put ended with `exc`, up to
\* its next suspension: a plain get/put hands its result to the caller; a put of
\* call() has caught the exception in put, and the loop of call() goes on.
Settle(t, op, c, exc, val, by, locks) ==
    IF c.fn = "none"
    THEN [task |-> IdleTask, locks |-> locks,
          result |-> [op |-> op, exc |-> exc,
                      value |-> IF exc = "none" THEN val ELSE "none",
                      by |-> by, call |-> NoCall]]
    ELSE RunSteps(t, Advance(c, exc), locks)

\* _execute_on_pooled_connection up to its first await:
\* if not self._connected: raise ConnectionError
EnterExecute(t, op, v, lock, c, locks) ==
    IF connected
    THEN [task |-> [IdleTask EXCEPT !.pc = "want_id", !.op = op, !.variable = v,
                                    !.lock = lock, !.call = c],
          locks |-> IF lock = "none" THEN locks ELSE [locks EXCEPT ![lock] = t],
          result |-> result]
    ELSE Settle(t, op, c, "ConnectionError", "none", "none", locks)

\* get / put after the command map lookup: for put _execute_command_safely. With
\* no lock, or a lock that is free, the call reaches _execute_on_pooled_connection
\* without suspending; otherwise it waits in `async with lock`.
Begin(t, op, v, lock, c, locks) ==
    IF lock # "none" /\ Contended(lock, locks, t)
    THEN [task |-> [IdleTask EXCEPT !.pc = "wait_lock", !.op = op, !.variable = v,
                                    !.lock = lock, !.call = c],
          locks |-> locks, result |-> result]
    ELSE EnterExecute(t, op, v, lock, c, locks)

\* PilarConnector.call: the loop over the steps from step c.step on, up to the
\* first suspension of a put or to the return of call()
RunSteps(t, c, locks) ==
    LET steps == actions_map[c.fn]
        Return(exc) == [task |-> IdleTask, locks |-> locks,
                        result |-> [op |-> "call", exc |-> exc, value |-> "none",
                                    by |-> "none", call |-> c]]
    IN IF c.step > Len(steps) THEN Return("none")
       ELSE LET s == steps[c.step]
            IN IF Placeholder(s.value) /\ ArgName(s.value) \notin c.data
               THEN Return("ValueError")
               ELSE IF s.variable \notin DOMAIN command_map
               THEN RunSteps(t, Advance(c, "KeyError"), locks)
               ELSE Begin(t, "put", s.variable, PutLock(s.variable), c, locks)

\* the state a coroutine step of caller t leaves behind
Becomes(t, n) ==
    /\ task' = [task EXCEPT ![t] = n.task]
    /\ resource_locks' = n.locks
    /\ result' = n.result

\* The end of one get/put: the finally block of _execute_on_pooled_connection,
\* the exit of `async with lock`, and the try/except of get/put. `lines` is the
\* reader buffer as the command leaves it, `pending` the peer's open requests.
Finish(t, exc, by, lines, pending) ==
    /\ connection_pool' = PutBackConn(connection_pool, task[t].conn)
    /\ id_pool' = PutBackId(id_pool, task[t].cmd_id)
    /\ Becomes(t, Settle(t, task[t].op, task[t].call, exc, task[t].value, by,
                         Unlock(resource_locks, t)))
    /\ peer' = [c \in Conns |-> Ended(pending[c], t)]
    /\ rx' = [c \in Conns |->
                EndedLines(IF c = task[t].conn THEN lines ELSE rx[c], t)]

\* get() / put(): the command map lookup, then the command
Invoke(t, op, v, lock) ==
    /\ FirstIdle(t)
    /\ ncmd < MaxCmds
    /\ ncmd' = ncmd + 1
    /\ Becomes(t, Begin(t, op, v, lock, NoCall, resource_locks))
    /\ UNCHANGED <<cfg, life, wire, sock, connected, connection_pool, id_pool>>

\* call() for a function of the actions map, with the keyword arguments `data`
Call(t, f, data) ==
    /\ FirstIdle(t)
    /\ ncmd < MaxCmds
    /\ ncmd' = ncmd + 1
    /\ Becomes(t, RunSteps(t, [NoCall EXCEPT !.fn = f, !.step = 1, !.data = data],
                           resource_locks))
    /\ UNCHANGED <<cfg, life, wire, sock, connected, connection_pool, id_pool>>

\* call() for a function the actions map does not hold: status unknown_function
CallUnknown(t) ==
    /\ FirstIdle(t)
    /\ ncmd < MaxCmds
    /\ UnknownFunction \notin DOMAIN actions_map
    /\ ncmd' = ncmd + 1
    /\ result' = [NoResult EXCEPT !.op = "call"]
    /\ UNCHANGED <<cfg, life, wire, sock, connected, connection_pool, id_pool,
                   resource_locks, task>>

\* the status call() returns
CallStatus(r) ==
    IF r.call.fn = "none" THEN "unknown_function"
    ELSE IF r.exc = "none" THEN "completed" ELSE "failed"

Get(t, v) == Invoke(t, "get", v, GetLock(v))

Put(t, v) == Invoke(t, "put", v, PutLock(v))

\* get()/put() for a (kind, variable) the command map does not hold: KeyError,
\* caught by `except Exception`
UnknownMapping(t, op) ==
    /\ FirstIdle(t)
    /\ ncmd < MaxCmds
    /\ UnknownVariable \notin DOMAIN command_map
    /\ ncmd' = ncmd + 1
    /\ result' = [NoResult EXCEPT !.op = op, !.exc = "KeyError"]
    /\ UNCHANGED <<cfg, life, wire, sock, connected, connection_pool, id_pool,
                   resource_locks, task>>

\* async with lock: the waiter gets the lock once it is free, and enters
\* _execute_on_pooled_connection
LockAcquired(t) ==
    /\ task[t].pc = "wait_lock"
    /\ resource_locks[task[t].lock] = 0
    /\ Becomes(t, EnterExecute(t, task[t].op, task[t].variable, task[t].lock,
                               task[t].call, resource_locks))
    /\ UNCHANGED <<cfg, life, wire, sock, connected, connection_pool, id_pool, ncmd>>

\* cmd_id = await wait_for(self._id_pool.get(), pool_get)
AcquireId(t) ==
    /\ task[t].pc = "want_id"
    /\ id_pool # <<>>
    /\ task' = [task EXCEPT ![t].cmd_id = Head(id_pool), ![t].pc = "want_conn",
                             ![t].waited = (connection_pool = <<>>)]
    /\ id_pool' = Tail(id_pool)
    /\ UNCHANGED <<cfg, life, wire, sock, connected, connection_pool, resource_locks,
                   result, ncmd>>

\* the wait for an ID runs into the pool_get timeout
IdTimeout(t) ==
    /\ task[t].pc = "want_id"
    /\ id_pool = <<>>
    /\ Finish(t, "TimeoutError", "none", <<>>, peer)
    /\ UNCHANGED <<cfg, life, sock, connected, peer_eof, ncmd>>

\* conn = await wait_for(self._connection_pool.get(), pool_get), then
\* conn.execute up to its first readline: the request line is written
AcquireConn(t) ==
    /\ task[t].pc = "want_conn"
    /\ connection_pool # <<>>
    /\ LET c == Head(connection_pool)
       IN /\ task' = [task EXCEPT ![t].conn = c, ![t].pc = "reading",
                                   ![t].broken = sock[c] # "open" \/ c \in peer_eof,
                                   ![t].call.sent = IF task[t].call.fn = "none" THEN @
                                                    ELSE Append(@, task[t].call.step)]
          /\ connection_pool' = Tail(connection_pool)
          /\ peer' = IF sock[c] # "open" \/ c \in peer_eof THEN peer
                     ELSE [peer EXCEPT ![c] = @ \cup
                              {[id |-> task[t].cmd_id, owner |-> t, valued |-> FALSE]}]
    /\ UNCHANGED <<cfg, life, sock, connected, id_pool, resource_locks, rx, peer_eof,
                   result, ncmd>>

\* a checkout that does not wait: with the pool empty the command fails at once,
\* as get_nowait() would with QueueEmpty
ConnNoWait(t) ==
    /\ task[t].pc = "want_conn"
    /\ connection_pool = <<>>
    /\ Finish(t, "QueueEmpty", "none", <<>>, peer)
    /\ UNCHANGED <<cfg, life, sock, connected, peer_eof, ncmd>>

\* the wait for a Connection runs into the pool_get timeout
ConnTimeout(t) ==
    /\ task[t].pc = "want_conn"
    /\ connection_pool = <<>>
    /\ Finish(t, "TimeoutError", "none", <<>>, peer)
    /\ UNCHANGED <<cfg, life, sock, connected, peer_eof, ncmd>>

\* PilarConnection.execute: what one line read from the stream does; `rest` is
\* the reader buffer behind it, `pending` the peer's unanswered requests
Process(t, line, rest, pending) ==
    LET c == task[t].conn
        mine == line.id = task[t].cmd_id
    IN IF mine /\ line.kind = "complete"
       THEN Finish(t, "none", Origin(t, line), rest, pending)
       ELSE IF mine /\ line.kind = "failed"
       THEN Finish(t, "RuntimeError", Origin(t, line), rest, pending)
       ELSE /\ task' = IF mine /\ line.kind = "value"
                       THEN [task EXCEPT ![t].value = Origin(t, line)]
                       ELSE task
            /\ rx' = [rx EXCEPT ![c] = rest]
            /\ peer' = pending
            /\ UNCHANGED <<connection_pool, id_pool, resource_locks, result>>

\* readline returns a line that was already buffered when the command came
ReadLine(t) ==
    /\ task[t].pc = "reading"
    /\ rx[task[t].conn] # <<>>
    /\ Process(t, Head(rx[task[t].conn]), Tail(rx[task[t].conn]), peer)
    /\ UNCHANGED <<cfg, life, sock, connected, peer_eof, ncmd>>

\* readline returns b'' (stream closed): ConnectionAbortedError
ReadEof(t) ==
    /\ task[t].pc = "reading"
    /\ rx[task[t].conn] = <<>>
    /\ (sock[task[t].conn] # "open" \/ task[t].conn \in peer_eof)
    /\ Finish(t, "ConnectionAbortedError", "none", <<>>, peer)
    /\ UNCHANGED <<cfg, life, sock, connected, peer_eof, ncmd>>

\* wait_for(readline(), timeout) expires: asyncio.TimeoutError -> TimeoutError
ReadTimeout(t) ==
    /\ task[t].pc = "reading"
    /\ rx[task[t].conn] = <<>>
    /\ sock[task[t].conn] = "open" /\ task[t].conn \notin peer_eof
    /\ Finish(t, "TimeoutError", "none", <<>>, peer)
    /\ UNCHANGED <<cfg, life, sock, connected, peer_eof, ncmd>>

(* ------------------------------ the peer ------------------------------ *)

\* the command waiting in readline on connection c with nothing buffered
Reader(c) == {t \in Tasks : task[t].pc = "reading" /\ task[t].conn = c /\ rx[c] = <<>>}

\* A line the device sends on connection c: a command waiting in readline reads
\* it at once; with no reader it stays in the stream's buffer.
Deliver(c, line, pending) ==
    /\ sock[c] = "open" /\ c \notin peer_eof
    /\ IF Reader(c) # {}
       THEN \E t \in Reader(c) : Process(t, line, <<>>, pending)
       ELSE /\ Len(rx[c]) < MaxLines
            /\ rx' = [rx EXCEPT ![c] = Append(@, line)]
            /\ peer' = pending
            /\ UNCHANGED <<connection_pool, id_pool, resource_locks, task, result>>
    /\ UNCHANGED <<cfg, life, sock, connected, peer_eof, ncmd>>

\* the device answers request q on connection c with "<id> <VAR>=<value>"
PeerValue(c, q) ==
    /\ q \in peer[c] /\ ~q.valued
    /\ Deliver(c, [id |-> q.id, kind |-> "value", owner |-> q.owner],
               [peer EXCEPT ![c] = (@ \ {q}) \cup {[q EXCEPT !.valued = TRUE]}])

\* ... with its terminal line "<id> COMMAND COMPLETE" or "<id> COMMAND FAILED"
PeerTerminal(c, q, kind) ==
    /\ q \in peer[c]
    /\ Deliver(c, [id |-> q.id, kind |-> kind, owner |-> q.owner],
               [peer EXCEPT ![c] = @ \ {q}])

\* the device closes the stream
PeerClose(c) ==
    /\ sock[c] = "open" /\ c \notin peer_eof
    /\ Cardinality(peer_eof) < MaxPeerCloses
    /\ peer_eof' = peer_eof \cup {c}
    /\ peer' = [peer EXCEPT ![c] = {}]
    /\ UNCHANGED <<cfg, life, sock, connected, connection_pool, id_pool,
                   resource_locks, rx, task, result, ncmd>>

\* the device sends the value line of request q once more, "<id> <VAR>=<value>"
\* with no terminal line behind it; the line lies in the stream's buffer until
\* the readline of the command returns it
PeerRepeatsValue(c, q) ==
    /\ q \in peer[c] /\ q.valued
    /\ sock[c] = "open" /\ c \notin peer_eof
    /\ Len(rx[c]) < MaxLines
    /\ rx' = [rx EXCEPT ![c] = Append(@, [id |-> q.id, kind |-> "value", owner |-> q.owner])]
    /\ UNCHANGED <<cfg, life, sock, connected, connection_pool, id_pool, resource_locks,
                   peer, peer_eof, task, result, ncmd>>

(* ----------------- PilarConnector.connect / disconnect ---------------- *)

IdleCtl == [pc |-> "idle", op |-> "none", ret |-> "none", made |-> 0]
\* heard: the text the server has sent to the creation task and that the task
\* has not read yet
OffSlot == [pc |-> "off", conn |-> NoConn, heard |-> "none"]

\* the sessions not opened yet
Unused == {c \in Conns : sock[c] = "none"}
Fresh == CHOOSE c \in Unused : \A d \in Unused : c <= d

SlotsOf(k) == {i \in Slots : slot[k][i].pc # "off"}

\* connections = await asyncio.gather(*creation_tasks), in task order; None left out
RECURSIVE Gathered(_, _)
Gathered(k, i) ==
    IF i > MaxPoolSize THEN <<>>
    ELSE (IF slot[k][i].pc = "ok" THEN <<slot[k][i].conn>> ELSE <<>>) \o Gathered(k, i + 1)

\* disconnect(): the loop `while not pool.empty()` from its top to the next
\* `await conn.writer.wait_closed()`, or to its end. A connection whose writer is
\* closing is dropped without waiting.
RECURSIVE SkipClosing(_)
SkipClosing(pool) ==
    IF pool = <<>> THEN <<>>
    ELSE IF sock[Head(pool)] # "open" THEN SkipClosing(Tail(pool)) ELSE pool

\* what the caller is handed when disconnect() ends: connect() returns False
\* after its own disconnect()
Ends(k, op, made) ==
    ctl' = [ctl EXCEPT ![k] = [IdleCtl EXCEPT !.op = op, !.made = made,
                                              !.ret = IF op = "connect" THEN "False"
                                                      ELSE "none"]]

CloseLoop(k, pool, op, made) ==
    LET p == SkipClosing(pool)
    IN IF p = <<>>
       THEN /\ connection_pool' = <<>>
            /\ sock' = sock
            /\ Ends(k, op, made)
       ELSE /\ connection_pool' = Tail(p)
            /\ sock' = [sock EXCEPT ![Head(p)] = "closed"]
            /\ ctl' = [ctl EXCEPT ![k] = [pc |-> "closing", op |-> op, ret |-> "none",
                                          made |-> made]]

\* disconnect() from its first line, on the pool as it is when it is called
DisconnectBody(k, pool, op, made) ==
    IF ~connected /\ pool = <<>>
    THEN /\ connection_pool' = pool
         /\ UNCHANGED <<connected, sock>>
         /\ Ends(k, op, made)
    ELSE /\ connected' = FALSE
         /\ CloseLoop(k, pool, op, made)

\* connect() up to `await asyncio.gather(...)`
ConnectCall(k) ==
    /\ ctl[k].pc = "idle"
    /\ nconnect < MaxConnects
    /\ nconnect' = nconnect + 1
    /\ IF connected
       THEN /\ ctl' = [ctl EXCEPT ![k] = [IdleCtl EXCEPT !.op = "connect", !.ret = "True"]]
            /\ UNCHANGED <<id_pool, slot>>
       ELSE /\ id_pool' = id_pool \o IdRangeSeq(id_range)
            /\ ctl' = [ctl EXCEPT ![k] = [IdleCtl EXCEPT !.pc = "gather", !.op = "connect"]]
            /\ slot' = [slot EXCEPT ![k] =
                  [i \in Slots |-> IF i <= pool_size
                                   THEN [OffSlot EXCEPT !.pc = "open"] ELSE OffSlot]]
    /\ UNCHANGED <<cfg, wire, sock, connected, connection_pool, resource_locks, task,
                   result, ncmd>>

\* _create_pooled_connection: wait_for(open_connection(host, port), connection timeout)
OpenConnection(k, i, ok) ==
    /\ slot[k][i].pc = "open"
    /\ IF ok
       THEN /\ Unused # {}
            /\ sock' = [sock EXCEPT ![Fresh] = "open"]
            /\ slot' = [slot EXCEPT ![k][i] = [OffSlot EXCEPT !.pc = "greeting",
                                                              !.conn = Fresh]]
       ELSE /\ sock' = sock
            /\ slot' = [slot EXCEPT ![k][i].pc = "failed"]
    /\ UNCHANGED <<cfg, wire, connected, connection_pool, id_pool, resource_locks, task,
                   result, ncmd, ctl, nconnect>>

\* the texts a server sends during the negotiation: a greeting with and without
\* the token TLS, a line with ENC OK, another line
Texts == {"tls", "plain", "enc_ok", "other"}

\* a negotiation that starts the handshake on any reply to ENC TLS
AfterReadUnchecked(pc, text) ==
    CASE text = "timeout" -> "failed"
      [] pc = "greeting" /\ text = "tls" -> "enc"
      [] pc = "greeting" -> "ok"
      [] OTHER -> "tls"

\* where _create_pooled_connection goes after its read at `pc` gave `text`
\* ("timeout": wait_for expired): b"TLS" in welcome_message, b"ENC OK" in
\* enc_response
AfterRead(pc, text) ==
    CASE text = "timeout" -> "failed"
      [] pc = "greeting" /\ text = "tls" -> "enc"
      [] pc = "greeting" -> "ok"
      [] pc = "enc" /\ text = "enc_ok" -> "tls"
      [] OTHER -> "failed"

\* welcome_message = await wait_for(reader.read(4096), 10.0): with "TLS" in it
\* "ENC TLS" is written, without it the connection is ready; a timeout ends the try
Greeting(k, i, g) ==
    /\ slot[k][i].pc = "greeting"
    /\ slot[k][i].heard = "none"
    /\ slot' = [slot EXCEPT ![k][i].pc = AfterRead("greeting", g)]
    /\ UNCHANGED <<cfg, wire, sock, connected, connection_pool, id_pool, resource_locks,
                   task, result, ncmd, ctl, nconnect>>

\* enc_response = await wait_for(reader.readline(), 5.0); "ENC OK" must be in it
EncResponse(k, i, ok) ==
    /\ slot[k][i].pc = "enc"
    /\ slot[k][i].heard = "none"
    /\ slot' = [slot EXCEPT ![k][i].pc = AfterRead("enc", IF ok THEN "enc_ok" ELSE "other")]
    /\ UNCHANGED <<cfg, wire, sock, connected, connection_pool, id_pool, resource_locks,
                   task, result, ncmd, ctl, nconnect>>

\* the server sends a text to the session of creation task i; the task reads it later
ServerSends(k, i, text) ==
    /\ slot[k][i].pc \in {"greeting", "enc"}
    /\ slot[k][i].heard = "none"
    /\ slot' = [slot EXCEPT ![k][i].heard = text]
    /\ UNCHANGED <<cfg, wire, sock, connected, connection_pool, id_pool, resource_locks,
                   task, result, ncmd, ctl, nconnect>>

\* reader.read(4096) / reader.readline() of the creation task returns what the
\* server sent, or wait_for expires when nothing was sent
ReadReply(k, i) ==
    /\ slot[k][i].pc \in {"greeting", "enc"}
    /\ slot' = [slot EXCEPT
          ![k][i].heard = "none",
          ![k][i].pc = AfterRead(slot[k][i].pc, IF slot[k][i].heard = "none" THEN "timeout"
                                                ELSE slot[k][i].heard)]
    /\ UNCHANGED <<cfg, wire, sock, connected, connection_pool, id_pool, resource_locks,
                   task, result, ncmd, ctl, nconnect>>

\* await writer.start_tls(sc)
StartTls(k, i, ok) ==
    /\ slot[k][i].pc = "tls"
    /\ slot' = [slot EXCEPT ![k][i].pc = IF ok THEN "ok" ELSE "failed"]
    /\ UNCHANGED <<cfg, wire, sock, connected, connection_pool, id_pool, resource_locks,
                   task, result, ncmd, ctl, nconnect>>

\* connect() after gather: the connections are put into the pool, then
\* `if self._connection_pool.full()` decides between online and disconnect()
ConnectGathered(k) ==
    /\ ctl[k].pc = "gather"
    /\ \A i \in SlotsOf(k) : slot[k][i].pc \in {"ok", "failed"}
    /\ LET made == Gathered(k, 1)
           pool == connection_pool \o made
       IN IF Full(pool)
          THEN /\ connection_pool' = pool
               /\ connected' = TRUE
               /\ sock' = sock
               /\ ctl' = [ctl EXCEPT ![k] = [IdleCtl EXCEPT !.op = "connect",
                                                !.ret = "True", !.made = Len(made)]]
          ELSE DisconnectBody(k, pool, "connect", Len(made))
    /\ slot' = [slot EXCEPT ![k] = [i \in Slots |-> OffSlot]]
    /\ UNCHANGED <<cfg, wire, id_pool, resource_locks, task, result, ncmd, nconnect>>

\* the task running connect() is cancelled while it awaits gather():
\* CancelledError is thrown into every creation task that is not done and then
\* leaves connect(). It is no Exception, so the `except Exception` of
\* _create_pooled_connection does not see it, and neither function has a
\* finally: no writer is closed, and the Connections of the tasks that were
\* done are dropped with the list of tasks.
CancelConnect(k) ==
    /\ ctl[k].pc = "gather"
    /\ ctl' = [ctl EXCEPT ![k] = [IdleCtl EXCEPT !.op = "connect", !.ret = "cancelled"]]
    /\ slot' = [slot EXCEPT ![k] = [i \in Slots |-> OffSlot]]
    /\ UNCHANGED <<cfg, wire, sock, connected, connection_pool, id_pool, resource_locks,
                   task, result, ncmd, nconnect>>

\* disconnect() called by a user of the connector
DisconnectCall(k) ==
    /\ ctl[k].pc = "idle"
    /\ DisconnectBody(k, connection_pool, "disconnect", 0)
    /\ UNCHANGED <<cfg, wire, id_pool, resource_locks, task, result, ncmd, slot, nconnect>>

\* a disconnect() that goes on only when no Connection is checked out
DisconnectResumeWhenAllBack(k) ==
    /\ ctl[k].pc = "closing"
    /\ \A t \in Tasks : task[t].conn = NoConn
    /\ CloseLoop(k, connection_pool, ctl[k].op, ctl[k].made)
    /\ UNCHANGED <<cfg, wire, connected, id_pool, resource_locks, task, result, ncmd,
                   slot, nconnect>>

\* disconnect() resumes after wait_closed()
DisconnectResume(k) ==
    /\ ctl[k].pc = "closing"
    /\ CloseLoop(k, connection_pool, ctl[k].op, ctl[k].made)
    /\ UNCHANGED <<cfg, wire, connected, id_pool, resource_locks, task, result, ncmd,
                   slot, nconnect>>

(* --------------------------- IrisCcdConnector ------------------------- *)

IrisTasks == 1..NumIrisTasks

\* mappings.actions of the UDP connector: function -> steps
iris_actions_map ==
    [f \in {"expose"} |-> <<[command |-> "EXPTIME", value |-> "{x}"],
                            [command |-> "START", value |-> "{y}"]>>]

IdleIris == [pc |-> "idle", op |-> "none", call |-> NoCall]

\* exc: the exception behind the result ("none": the command succeeded); by:
\* whether the datagram that ended the wait answered this very command ("own") or
\* a command that had ended before ("stale")
NoIrisResult == [op |-> "none", exc |-> "none", by |-> "none", call |-> NoCall]

\* a future nobody awaits: asyncio.Future() of connect(), or one that is done
DoneFuture == [state |-> "done", waiter |-> 0]
FreshFuture == [state |-> "pending", waiter |-> 0]

\* an except clause that leaves out the timeout and the command-level failure
IrisCaughtNarrow == {"KeyError", "ConnectionError", "ConnectionAbortedError"}

\* except (KeyError, TimeoutError, ConnectionError, RuntimeError) of get / put,
\* with the subclasses the model raises
IrisCaught == {"KeyError", "TimeoutError", "ConnectionError", "ConnectionAbortedError",
               "RuntimeError"}

\* what IrisCcdConnector.get / put hand to the caller
IrisReturned(op, exc) ==
    IF exc = "none" THEN (IF op = "get" THEN "payload" ELSE "status_ok")
    ELSE IF exc \in IrisCaught THEN (IF op = "get" THEN "None" ELSE "status_failed")
    ELSE "raise"

FirstIdleIris(t) ==
    iris_task[t].pc = "idle" /\ \A u \in IrisTasks : u < t => iris_task[u].pc # "idle"

\* a disconnect() that leaves the flag and the transport as they are
IrisStaysOpen(conn, transport) == <<conn, transport>>

\* IrisCcdConnector.disconnect(), called with the connector in the given state:
\* <<_connected, _transport>> afterwards
IrisDisconnected(conn, transport) ==
    IF ~conn THEN <<conn, transport>> ELSE <<FALSE, "None">>

\* the part of the connector's state a step of a command works on; `me` is the
\* caller's own place
IrisNow(t) ==
    [connected |-> iris_connected, transport |-> iris_transport,
     future |-> response_future, lock |-> iris_lock, me |-> iris_task[t],
     result |-> iris_result, device |-> device]

IrisBecomes(t, n) ==
    /\ iris_connected' = n.connected
    /\ iris_transport' = n.transport
    /\ response_future' = n.future
    /\ iris_lock' = n.lock
    /\ iris_task' = [iris_task EXCEPT ![t] = n.me]
    /\ iris_result' = n.result
    /\ device' = n.device

RECURSIVE IrisRunSteps(_, _, _)
RECURSIVE IrisSettle(_, _, _, _, _, _)

\* What the coroutine of caller t does after _execute_command ended with `exc`:
\* get / put return; call() returns a failure for an exception and goes on with
\* the next step otherwise.
IrisSettle(t, op, c, exc, by, st) ==
    IF c.fn = "none"
    THEN [st EXCEPT !.me = IdleIris,
                    !.result = [op |-> op, exc |-> exc, by |-> by, call |-> NoCall]]
    ELSE IF exc # "none"
    THEN [st EXCEPT !.me = IdleIris,
                    !.result = [op |-> "call", exc |-> exc, by |-> by,
                                call |-> Advance(c, exc)]]
    ELSE IrisRunSteps(t, [Advance(c, exc) EXCEPT !.response = by], st)

\* _execute_command inside `async with self._lock`, up to the await of the future
IrisEnter(t, op, c, st) ==
    IF ~st.connected
    THEN IrisSettle(t, op, c, "ConnectionError", "none",
                    [st EXCEPT !.lock = IF @ = t THEN 0 ELSE @])
    ELSE [st EXCEPT !.future = [state |-> "pending", waiter |-> t],
                    !.device = @ \cup {[owner |-> t]},
                    !.me = [pc |-> "waiting", op |-> op,
                            call |-> IF c.fn = "none" THEN c
                                     ELSE [c EXCEPT !.sent = Append(@, c.step)]],
                    !.lock = t]

\* async with self._lock: acquire() suspends when the lock is held or others
\* wait for it
IrisBegin(t, op, c, st) ==
    IF st.lock # 0 \/ \E u \in IrisTasks \ {t} : iris_task[u].pc = "wait_lock"
    THEN [st EXCEPT !.me = [pc |-> "wait_lock", op |-> op, call |-> c]]
    ELSE IrisEnter(t, op, c, st)

\* IrisCcdConnector.call: the loop over the steps from step c.step on, up to the
\* first suspension or to the return of call()
IrisRunSteps(t, c, st) ==
    LET steps == iris_actions_map[c.fn]
        Return(exc) == [st EXCEPT !.me = IdleIris,
                                  !.result = [op |-> "call", exc |-> exc,
                                              by |-> c.response, call |-> c]]
    IN IF c.step > Len(steps) THEN Return("none")
       ELSE IF Placeholder(steps[c.step].value) /\ ArgName(steps[c.step].value) \notin c.data
       THEN Return("ValueError")
       ELSE IrisBegin(t, "call", c, st)

\* The end of one _execute_command and of the get/put around it: the lock is
\* released; `disconnects` says whether the handler `except Exception` ran.
IrisFinish(t, exc, by, disconnects, unanswered) ==
    LET after == IF disconnects THEN IrisDisconnected(iris_connected, iris_transport)
                 ELSE <<iris_connected, iris_transport>>
        st == [IrisNow(t) EXCEPT
                 !.connected = after[1],
                 !.transport = after[2],
                 !.lock = IF @ = t THEN 0 ELSE @,
                 !.future = IF @.waiter = t THEN DoneFuture ELSE @,
                 !.device = IF after[2] = "None" THEN {} ELSE Ended(unanswered, t)]
    IN IrisBecomes(t, IrisSettle(t, iris_task[t].op, iris_task[t].call, exc, by, st))

\* an _execute_command that does not take self._lock
IrisInvokeUnlocked(t, op) ==
    /\ FirstIdleIris(t)
    /\ niris[1] < MaxIrisCmds
    /\ niris' = [niris EXCEPT ![1] = @ + 1]
    /\ IrisBecomes(t, IrisEnter(t, op, NoCall, IrisNow(t)))

\* get() / put(): the command map lookup, then _execute_command
IrisInvoke(t, op) ==
    /\ FirstIdleIris(t)
    /\ niris[1] < MaxIrisCmds
    /\ niris' = [niris EXCEPT ![1] = @ + 1]
    /\ IrisBecomes(t, IrisBegin(t, op, NoCall, IrisNow(t)))

\* call() for a function of the actions map, with the keyword arguments `data`
IrisCall(t, f, data) ==
    /\ FirstIdleIris(t)
    /\ niris[1] < MaxIrisCmds
    /\ niris' = [niris EXCEPT ![1] = @ + 1]
    /\ IrisBecomes(t, IrisRunSteps(t, [NoCall EXCEPT !.fn = f, !.step = 1, !.data = data],
                                   IrisNow(t)))

\* call() for a function the actions map does not hold: status unknown_function
IrisCallUnknown(t) ==
    /\ FirstIdleIris(t)
    /\ niris[1] < MaxIrisCmds
    /\ UnknownFunction \notin DOMAIN iris_actions_map
    /\ niris' = [niris EXCEPT ![1] = @ + 1]
    /\ iris_result' = [NoIrisResult EXCEPT !.op = "call"]
    /\ UNCHANGED <<iris_connected, iris_transport, response_future, iris_lock,
                   iris_task, device>>

\* get()/put() for a (kind, variable) the command map does not hold: KeyError
IrisUnknownMapping(t, op) ==
    /\ FirstIdleIris(t)
    /\ niris[1] < MaxIrisCmds
    /\ niris' = [niris EXCEPT ![1] = @ + 1]
    /\ iris_result' = [NoIrisResult EXCEPT !.op = op, !.exc = "KeyError"]
    /\ UNCHANGED <<iris_connected, iris_transport, response_future, iris_lock,
                   iris_task, device>>

\* async with self._lock: the waiter gets the lock once it is free
IrisLockAcquired(t) ==
    /\ iris_task[t].pc = "wait_lock"
    /\ iris_lock = 0
    /\ IrisBecomes(t, IrisEnter(t, iris_task[t].op, iris_task[t].call, IrisNow(t)))
    /\ UNCHANGED niris

\* IrisCcdProtocol.datagram_received, and the command it wakes: a datagram sets the
\* result of the future installed in the protocol unless that future is done; the
\* awaiting command decodes it ("**** OKAY ..." or anything else)
DatagramReceived(q, okay) ==
    /\ q \in device
    /\ iris_transport = "open"
    /\ IF response_future.state = "pending" /\ response_future.waiter # 0
       THEN LET t == response_future.waiter
                by == IF q.owner = t THEN "own" ELSE "stale"
            IN IrisFinish(t, IF okay THEN "none" ELSE "RuntimeError", by, ~okay,
                          device \ {q})
       ELSE /\ response_future' = IF response_future.state = "pending" THEN DoneFuture
                                  ELSE response_future
            /\ device' = device \ {q}
            /\ UNCHANGED <<iris_connected, iris_transport, iris_lock, iris_task,
                           iris_result>>
    /\ UNCHANGED niris

\* wait_for(response_future, self._timeout) expires: the future is cancelled,
\* TimeoutError is raised, the connector stays connected
IrisTimeout(t) ==
    /\ iris_task[t].pc = "waiting"
    /\ response_future.waiter = t /\ response_future.state = "pending"
    /\ IrisFinish(t, "TimeoutError", "none", FALSE, device)
    /\ UNCHANGED niris

\* IrisCcdProtocol.error_received / connection_lost set the future's exception;
\* the command takes `except Exception`: disconnect(), then raise
IrisError(t) ==
    /\ iris_task[t].pc = "waiting"
    /\ response_future.waiter = t
    /\ IrisFinish(t, IF response_future.state = "lost" THEN "ConnectionError" ELSE "OSError",
                  "none", TRUE, device)
    /\ UNCHANGED niris

\* IrisCcdConnector.connect(): create_datagram_endpoint succeeds or raises OSError
IrisConnect(ok) ==
    /\ niris[2] < MaxIrisConnects
    /\ niris' = [niris EXCEPT ![2] = @ + 1]
    /\ IF ~iris_connected /\ ok
       THEN /\ iris_connected' = TRUE
            /\ iris_transport' = "open"
            /\ response_future' = IF response_future.waiter # 0 THEN response_future
                                  ELSE FreshFuture
       ELSE UNCHANGED <<iris_connected, iris_transport, response_future>>
    /\ UNCHANGED <<iris_lock, iris_task, iris_result, device>>

\* IrisCcdConnector.disconnect() called by a user of the connector; closing the
\* transport makes connection_lost fail the pending future
IrisDisconnect ==
    /\ IF ~iris_connected
       THEN UNCHANGED <<iris_connected, iris_transport, response_future, device>>
       ELSE /\ iris_connected' = FALSE
            /\ iris_transport' = "None"
            /\ response_future' = IF response_future.state = "pending"
                                  THEN [response_future EXCEPT !.state = "lost"]
                                  ELSE response_future
            /\ device' = {}
    /\ UNCHANGED <<iris_lock, iris_task, iris_result, niris>>

(* ----------------------- PilarConnection.execute ---------------------- *)

\* The characters of the lines looked at; "C" stands for the text
\* COMMAND COMPLETE and "F" for the text COMMAND FAILED.
Chars == {"1", " ", "=", "v", "C", "F"}

RECURSIVE StringsOf(_)
StringsOf(n) ==
    IF n = 0 THEN {<<>>}
    ELSE LET shorter == StringsOf(n - 1)
         IN shorter \cup {Append(s, ch) : s \in {x \in shorter : Len(x) = n - 1}, ch \in Chars}

\* the lines a peer may send, without their newline
Lines == StringsOf(MaxLineLen)

\* the correlation IDs looked at
ProbeIds == {1, 11}

\* str(n)
RECURSIVE Str(_)
Str(n) ==
    LET digit == <<"0", "1", "2", "3", "4", "5", "6", "7", "8", "9">>[(n % 10) + 1]
    IN IF n < 10 THEN <<digit>> ELSE Append(Str(n \div 10), digit)

\* str.strip(): blanks at both ends removed
RECURSIVE Strip(_)
Strip(s) ==
    IF s = <<>> THEN s
    ELSE IF Head(s) = " " THEN Strip(Tail(s))
    ELSE IF s[Len(s)] = " " THEN Strip(SubSeq(s, 1, Len(s) - 1))
    ELSE s

\* str.startswith(p)
StartsWith(s, p) == Len(s) >= Len(p) /\ SubSeq(s, 1, Len(p)) = p

\* ch in s
Contains(s, ch) == \E n \in 1..Len(s) : s[n] = ch

\* s.split(ch, 1)[1], for s that contains ch
AfterFirst(s, ch) ==
    LET n == CHOOSE m \in 1..Len(s) : s[m] = ch /\ \A j \in 1..(m - 1) : s[j] # ch
    IN SubSeq(s, n + 1, Len(s))

\* value_to_return: None, or the text captured
NoValue == [set |-> FALSE, text |-> <<>>]

\* the literal "OK"
OkText == <<"O", "K">>

NoProbe == [fn |-> "none"]

\* execute(cmd_id, ...) after `writer.drain()`: nothing captured, nothing read
Executing(id) ==
    [fn |-> "execute", cmd_id |-> id, value |-> NoValue, line |-> <<>>, arrived |-> FALSE,
     out |-> "reading", ret |-> <<>>]

\* PilarConnection.execute: the body of `while True` for one line read
ExecuteLine(e, raw) ==
    LET line == Strip(raw)
        id == Str(e.cmd_id)
        v == IF StartsWith(line, id \o <<" ">>) /\ Contains(line, "=")
             THEN [set |-> TRUE, text |-> Strip(AfterFirst(line, "="))]
             ELSE e.value
    IN IF StartsWith(line, id \o <<" ", "C">>)
       THEN [e EXCEPT !.value = v, !.out = "returned",
                      !.ret = IF v.set THEN v.text ELSE OkText]
       ELSE IF StartsWith(line, id \o <<" ", "F">>)
       THEN [e EXCEPT !.value = v, !.out = "RuntimeError"]
       ELSE [e EXCEPT !.value = v]

\* the peer sends a line; execute reads it later
LineArrives(raw) ==
    /\ probe.fn = "execute" /\ probe.out = "reading" /\ ~probe.arrived
    /\ probe' = [probe EXCEPT !.line = raw, !.arrived = TRUE]
    /\ UNCHANGED <<pilar_vars, iris_vars>>

\* readline() returns the line that arrived
ExecuteReads ==
    /\ probe.fn = "execute" /\ probe.out = "reading" /\ probe.arrived
    /\ probe' = [ExecuteLine(probe, probe.line) EXCEPT !.line = <<>>, !.arrived = FALSE]
    /\ UNCHANGED <<pilar_vars, iris_vars>>

(* ------------------ IrisCcdConnector._execute_command ------------------ *)

\* settings.packet_size of the configurations looked at
PacketSizes == {3, 4}

\* the characters of command texts; "E" stands for an e with an acute accent,
\* a character outside ASCII that UTF-8 writes as two bytes
CommandChars == {"a", "E"}

RECURSIVE TextsOf(_)
TextsOf(n) ==
    IF n = 0 THEN {<<>>}
    ELSE LET shorter == TextsOf(n - 1)
         IN shorter \cup {Append(s, ch) : s \in {x \in shorter : Len(x) = n - 1},
                                          ch \in CommandChars}

\* str.encode('utf-8')
RECURSIVE Encode(_)
Encode(text) ==
    IF text = <<>> THEN <<>>
    ELSE (IF Head(text) = "a" THEN <<97>> ELSE <<195, 169>>) \o Encode(Tail(text))

\* bytes.ljust(size, b'\0')
RECURSIVE Ljust(_, _)
Ljust(bytes, size) == IF Len(bytes) >= size THEN bytes ELSE Ljust(Append(bytes, 0), size)

\* "**** OKAY", and its bytes
Marker == <<"*", "*", "*", "*", " ", "O", "K", "A", "Y">>
MarkerBytes == <<42, 42, 42, 42, 32, 79, 75, 65, 89>>

\* the character of an ASCII byte looked at; 255 is no UTF-8
CharOf(b) ==
    CASE b = 32 -> " " [] b = 42 -> "*" [] b = 65 -> "A" [] b = 75 -> "K"
      [] b = 79 -> "O" [] b = 89 -> "Y" [] b = 102 -> "f" [] OTHER -> "?"

\* the bytes a datagram may go on with, and the datagrams looked at: one of a
\* few first parts, then up to MaxTailLen further bytes
TailBytes == {0, 32, 102, 255}

RECURSIVE TailsOf(_)
TailsOf(n) ==
    IF n = 0 THEN {<<>>}
    ELSE LET shorter == TailsOf(n - 1)
         IN shorter \cup {Append(s, b) : s \in {x \in shorter : Len(x) = n - 1},
                                         b \in TailBytes}

Datagrams ==
    {first \o tail : first \in {<<>>, MarkerBytes, SubSeq(MarkerBytes, 1, 8),
                                 <<32>> \o MarkerBytes},
                     tail \in TailsOf(MaxTailLen)}

\* data.split(b'\0', 1)[0]
RECURSIVE UpToZero(_)
UpToZero(data) ==
    IF data = <<>> \/ Head(data) = 0 THEN <<>> ELSE <<Head(data)>> \o UpToZero(Tail(data))

\* bytes.decode('utf-8') raises UnicodeDecodeError on a byte that is no UTF-8
Decodable(bytes) == \A n \in 1..Len(bytes) : bytes[n] < 128
Decode(bytes) == [n \in 1..Len(bytes) |-> CharOf(bytes[n])]

\* a result that is the text right behind the marker
PayloadBehindMarker(response) == Strip(SubSeq(response, 10, Len(response)))

\* response[10:].strip()
Payload(response) == Strip(SubSeq(response, 11, Len(response)))

\* _execute_command for one command text and the datagram that answers it
Framing(command, size, data) ==
    [fn |-> "framing", command |-> command, packet_size |-> size, data |-> data,
     packet |-> <<>>, out |-> "start", ret |-> <<>>]

\* command_bytes.ljust(...); self._transport.sendto(packet_to_send)
SendPacket ==
    /\ probe.fn = "framing" /\ probe.out = "start"
    /\ probe' = [probe EXCEPT !.packet = Ljust(Encode(probe.command), probe.packet_size),
                              !.out = "sent"]
    /\ UNCHANGED <<pilar_vars, iris_vars>>

\* the datagram arrives: split, decode, marker test
ReceivePacket ==
    /\ probe.fn = "framing" /\ probe.out = "sent"
    /\ LET bytes == UpToZero(probe.data)
           response == Decode(bytes)
       IN probe' = IF ~Decodable(bytes)
                   THEN [probe EXCEPT !.out = "UnicodeDecodeError"]
                   ELSE IF StartsWith(response, Marker)
                   THEN [probe EXCEPT !.out = "returned", !.ret = Payload(response)]
                   ELSE [probe EXCEPT !.out = "RuntimeError"]
    /\ UNCHANGED <<pilar_vars, iris_vars>>

(* --------------------------- specifications --------------------------- *)

\* IrisCcdConnector.__init__
IrisInit ==
    /\ iris_connected = FALSE
    /\ iris_transport = "None"
    /\ response_future = DoneFuture
    /\ iris_lock = 0
    /\ iris_task = [t \in IrisTasks |-> IdleIris]
    /\ iris_result = NoIrisResult
    /\ device = {}
    /\ niris = <<0, 0>>

\* no function is looked at on its own
Unprobed == probe = NoProbe

\* PilarConnector.__init__ with the given configuration
PilarInit(config) ==
    /\ pool_size = config[1] /\ id_range = config[2]
    /\ connected = FALSE
    /\ connection_pool = <<>>
    /\ id_pool = <<>>
    /\ resource_locks = [r \in Resources |-> 0]
    /\ task = [t \in Tasks |-> IdleTask]
    /\ result = NoResult
    /\ ncmd = 0
    /\ sock = [c \in Conns |-> "none"]
    /\ rx = [c \in Conns |-> <<>>]
    /\ peer = [c \in Conns |-> {}]
    /\ peer_eof = {}
    /\ ctl = [k \in Callers |-> IdleCtl]
    /\ slot = [k \in Callers |-> [i \in Slots |-> OffSlot]]
    /\ nconnect = 0

\* both connectors constructed, the Pilar one with one of the configurations
Init == IrisInit /\ Unprobed /\ \E c \in Configs : PilarInit(c)

\* the connector online, as the first connect() is to leave it: every pool slot
\* filled, the IDs populated, _connected set
ConnectedWith(config) ==
    /\ pool_size = config[1] /\ id_range = config[2]
    /\ connected = TRUE
    /\ connection_pool = [i \in 1..pool_size |-> i]
    /\ id_pool = IdRangeSeq(id_range)
    /\ resource_locks = [r \in Resources |-> 0]
    /\ task = [t \in Tasks |-> IdleTask]
    /\ result = NoResult
    /\ ncmd = 0
    /\ sock = [c \in Conns |-> IF c <= pool_size THEN "open" ELSE "none"]
    /\ rx = [c \in Conns |-> <<>>]
    /\ peer = [c \in Conns |-> {}]
    /\ peer_eof = {}
    /\ ctl = [k \in Callers |-> IdleCtl]
    /\ slot = [k \in Callers |-> [i \in Slots |-> OffSlot]]
    /\ nconnect = 1

\* one session and the single ID 1
OnlineConfig == <<1, <<1, 1>>>>

InitConnected == IrisInit /\ Unprobed /\ \E c \in Configs : ConnectedWith(c)

\* create_connector(protocol) builds one connector: the program uses the
\* pooled-TCP connector and leaves the UDP one as constructed, or the other way
IrisUnused == niris = <<0, 0>> /\ UNCHANGED iris_vars /\ UNCHANGED probe

PilarUnused == ncmd = 0 /\ peer_eof = {} /\ UNCHANGED pilar_vars /\ UNCHANGED probe

Invocation ==
    \E t \in Tasks :
        \/ \E v \in Variables : Get(t, v) /\ IrisUnused
        \/ \E v \in Variables : Put(t, v) /\ IrisUnused
        \/ \E op \in {"get", "put"} : UnknownMapping(t, op) /\ IrisUnused

Execution ==
    \E t \in Tasks :
        \/ LockAcquired(t) /\ IrisUnused
        \/ AcquireId(t) /\ IrisUnused
        \/ IdTimeout(t) /\ IrisUnused
        \/ AcquireConn(t) /\ IrisUnused
        \/ ConnTimeout(t) /\ IrisUnused
        \/ ReadLine(t) /\ IrisUnused
        \/ ReadEof(t) /\ IrisUnused
        \/ ReadTimeout(t) /\ IrisUnused

Peer ==
    \E c \in Conns :
        \/ \E q \in peer[c] : PeerValue(c, q) /\ IrisUnused
        \/ \E q \in peer[c] : \E kind \in {"complete", "failed"} : PeerTerminal(c, q, kind) /\ IrisUnused
        \/ PeerClose(c) /\ IrisUnused

Lifecycle(k) ==
    \/ ConnectCall(k) /\ IrisUnused
    \/ \E i \in Slots : \E ok \in BOOLEAN : OpenConnection(k, i, ok) /\ IrisUnused
    \/ \E i \in Slots : \E g \in {"tls", "plain", "timeout"} : Greeting(k, i, g) /\ IrisUnused
    \/ \E i \in Slots : \E ok \in BOOLEAN : EncResponse(k, i, ok) /\ IrisUnused
    \/ \E i \in Slots : \E ok \in BOOLEAN : StartTls(k, i, ok) /\ IrisUnused
    \/ ConnectGathered(k) /\ IrisUnused
    \/ DisconnectCall(k) /\ IrisUnused
    \/ DisconnectResume(k) /\ IrisUnused

\* the connector from its construction: connect(), disconnect(), get(), put()
Next == (\E k \in Callers : Lifecycle(k)) \/ Invocation

Spec == Init /\ [][Next]_vars

\* commands on the online connector, with the device answering
NextExec == Invocation \/ Execution \/ Peer

SpecExec == InitConnected /\ [][NextExec]_vars

\* connect() from the constructor, with the server's texts of the negotiation
\* arriving before they are read
Creation(k) ==
    \/ ConnectCall(k) /\ IrisUnused
    \/ \E i \in Slots : \E ok \in BOOLEAN : OpenConnection(k, i, ok) /\ IrisUnused
    \/ \E i \in Slots : \E text \in Texts : ServerSends(k, i, text) /\ IrisUnused
    \/ \E i \in Slots : ReadReply(k, i) /\ IrisUnused
    \/ \E i \in Slots : \E ok \in BOOLEAN : StartTls(k, i, ok) /\ IrisUnused
    \/ ConnectGathered(k) /\ IrisUnused
    \/ DisconnectResume(k) /\ IrisUnused

NextCreate == Creation(1)

SpecCreate == Init /\ [][NextCreate]_vars

\* connect() and disconnect() from the constructor, with the task of a
\* connect() cancelled at any moment of its gather()
NextCancel ==
    \E k \in Callers : Lifecycle(k) \/ (CancelConnect(k) /\ IrisUnused)

SpecCancel == Init /\ [][NextCancel]_vars

\* one execute() on its own, reading whatever lines the peer sends
InitLines ==
    /\ IrisInit /\ PilarInit(OnlineConfig)
    /\ \E id \in ProbeIds : probe = Executing(id)

NextLines == (\E raw \in Lines : LineArrives(raw)) \/ ExecuteReads

SpecLines == InitLines /\ [][NextLines]_vars

\* one _execute_command on its own, for every command text, packet size and
\* answering datagram looked at
InitFraming ==
    /\ IrisInit /\ PilarInit(OnlineConfig)
    /\ \E command \in TextsOf(MaxCommandLen) : \E size \in PacketSizes :
          \E data \in Datagrams : probe = Framing(command, size, data)

NextFraming == SendPacket \/ ReceivePacket

SpecFraming == InitFraming /\ [][NextFraming]_vars

\* the online connector with disconnect() and connect() called while commands run;
\* the network accepts every session, the device answers COMMAND COMPLETE or nothing
PeerOnline ==
    \E c \in Conns :
        \/ \E q \in peer[c] : PeerTerminal(c, q, "complete") /\ IrisUnused
        \/ PeerClose(c) /\ IrisUnused

LifecycleOnline(k) ==
    \/ ConnectCall(k) /\ IrisUnused
    \/ \E i \in Slots : OpenConnection(k, i, TRUE) /\ IrisUnused
    \/ \E i \in Slots : Greeting(k, i, "plain") /\ IrisUnused
    \/ ConnectGathered(k) /\ IrisUnused
    \/ DisconnectCall(k) /\ IrisUnused
    \/ DisconnectResume(k) /\ IrisUnused

NextOnline == Invocation \/ Execution \/ PeerOnline \/ LifecycleOnline(1)

InitOnline == IrisInit /\ Unprobed /\ ConnectedWith(OnlineConfig)

SpecOnline == InitOnline /\ [][NextOnline]_vars

\* two sessions and the IDs 1 and 2
ReconnectConfig == <<2, <<1, 2>>>>

\* gets on a device that stays silent: each command takes its ID and its
\* Connection and ends with the response timeout
SilentCommands ==
    \E t \in Tasks :
        \/ \E v \in Variables : Get(t, v) /\ IrisUnused
        \/ AcquireId(t) /\ IrisUnused
        \/ AcquireConn(t) /\ IrisUnused
        \/ ReadTimeout(t) /\ IrisUnused

\* the online connector with two sessions, disconnect() and connect() called
\* while commands hold Connections
NextReconnect == SilentCommands \/ LifecycleOnline(1)

InitReconnect == IrisInit /\ Unprobed /\ ConnectedWith(ReconnectConfig)

SpecReconnect == InitReconnect /\ [][NextReconnect]_vars

\* a device that may go on sending value lines
PeerTalks ==
    \E c \in Conns :
        \/ \E q \in peer[c] : PeerValue(c, q) /\ IrisUnused
        \/ \E q \in peer[c] : PeerTerminal(c, q, "complete") /\ IrisUnused
        \/ \E q \in peer[c] : PeerRepeatsValue(c, q) /\ IrisUnused

\* the next step of the command of caller t
CommandStep(t) ==
    \/ LockAcquired(t) /\ IrisUnused
    \/ AcquireId(t) /\ IrisUnused
    \/ IdTimeout(t) /\ IrisUnused
    \/ AcquireConn(t) /\ IrisUnused
    \/ ConnTimeout(t) /\ IrisUnused
    \/ ReadLine(t) /\ IrisUnused
    \/ ReadTimeout(t) /\ IrisUnused

NextTalk == Invocation \/ (\E t \in Tasks : CommandStep(t)) \/ PeerTalks

\* The event loop runs every command that can go on, and each wait_for ends
\* when its time is over: a command that can take a step takes one. Nothing is
\* assumed of the device.
SpecTalkFair ==
    /\ InitConnected /\ [][NextTalk]_vars
    /\ \A t \in Tasks : WF_vars(CommandStep(t))

\* wait_closed() returns once the transport of the writer that was closed is
\* gone: a disconnect() that can go on does go on. Nothing is assumed of the
\* commands and of the device.
SpecOnlineFair == SpecOnline /\ WF_vars(DisconnectResume(1) /\ IrisUnused)

\* the UDP connector: get(), put(), connect(), disconnect() and the camera
IrisCommands ==
    \E t \in IrisTasks :
        \/ \E op \in {"get", "put"} : IrisInvoke(t, op) /\ PilarUnused
        \/ \E op \in {"get", "put"} : IrisUnknownMapping(t, op) /\ PilarUnused
        \/ IrisLockAcquired(t) /\ PilarUnused
        \/ IrisTimeout(t) /\ PilarUnused
        \/ IrisError(t) /\ PilarUnused

IrisEnvironment ==
    \/ \E q \in device : \E okay \in BOOLEAN : DatagramReceived(q, okay) /\ PilarUnused
    \/ \E ok \in BOOLEAN : IrisConnect(ok) /\ PilarUnused
    \/ IrisDisconnect /\ PilarUnused

NextIris == IrisCommands \/ IrisEnvironment

IrisCalls ==
    \E t \in IrisTasks :
        \/ \E f \in DOMAIN iris_actions_map : \E data \in DataSets :
              IrisCall(t, f, data) /\ PilarUnused
        \/ IrisCallUnknown(t) /\ PilarUnused

\* actions and commands on the UDP connector
NextIrisCall == IrisCalls \/ NextIris

InitIris == IrisInit /\ Unprobed /\ PilarInit(OnlineConfig)

SpecIris == InitIris /\ [][NextIris]_vars

SpecIrisCall == InitIris /\ [][NextIrisCall]_vars

Calls ==
    \E t \in Tasks :
        \/ \E f \in DOMAIN actions_map : \E data \in DataSets : Call(t, f, data) /\ IrisUnused
        \/ CallUnknown(t) /\ IrisUnused

\* the device answers a request with its terminal line or not at all, or closes
\* the stream
PeerCall ==
    \E c \in Conns :
        \/ \E q \in peer[c] : \E kind \in {"complete", "failed"} :
              PeerTerminal(c, q, kind) /\ IrisUnused
        \/ PeerClose(c) /\ IrisUnused

\* actions and commands on the online connector
NextCall == Calls \/ Invocation \/ Execution \/ PeerCall

\* one session, with the single ID 1 or with the IDs 1, 2
CallConfigs == {OnlineConfig, <<1, <<1, 2>>>>}

InitCall == IrisInit /\ Unprobed /\ \E c \in CallConfigs : ConnectedWith(c)

SpecCall == InitCall /\ [][NextCall]_vars

\* a program that holds one connector of either kind and runs actions on it
NextEitherCall == NextCall \/ NextIrisCall

SpecEitherCall == InitCall /\ [][NextEitherCall]_vars

\* a program that holds one connector, of either kind, online: commands on it
NextEither == NextExec \/ NextIris

SpecEither == InitConnected /\ [][NextEither]_vars

(* ------------------------------ properties --------------------------- *)

\* the commands that are past the connected check and have not ended
InFlight == {t \in Tasks : task[t].pc \in {"want_id", "want_conn", "reading"}}

\* C1: connect() returns success if and only if every one of the pool_size
\* sessions was created; in particular it returns success when all of them opened.
C1_SuccessIffAllSessions ==
    \A k \in Callers :
        (ctl[k].pc = "idle" /\ ctl[k].op = "connect" /\ ctl[k].ret # "none")
            => ((ctl[k].ret = "True") <=> (ctl[k].made = pool_size))

\* a connect() whose pool_size sessions all opened has returned
C1_AllSessionsOpened ==
    \E k \in Callers :
        /\ ctl[k].pc = "idle" /\ ctl[k].op = "connect"
        /\ ctl[k].made = pool_size

Exits(t) == task[t].pc \in {"want_id", "want_conn", "reading"} /\ task'[t].pc = "idle"

C5_ConnectionExclusive ==
    /\ \A t, u \in Tasks :
          (t # u /\ task[t].conn # NoConn) => task[t].conn # task[u].conn
    /\ \A t \in Tasks :
          task[t].conn # NoConn => Count(connection_pool, task[t].conn) = 0
    /\ \A c \in Conns : Count(connection_pool, c) <= 1
    /\ \A c \in Conns : \A q \in peer[c] :
          q.owner # 0 => task[q.owner].conn = c /\ task[q.owner].pc = "reading"

\* two commands are in their exchanges at the same time, each on its Connection,
\* after an earlier command has put its Connection back
C5_TwoExchanges ==
    /\ \E t, u \in Tasks :
          t # u /\ task[t].pc = "reading" /\ task[u].pc = "reading"
    /\ ncmd = MaxCmds

\* the Connections on which the device holds a request of caller t
Sent(t) == {c \in Conns : \E q \in peer[c] : q.owner = t}

\* C6: a command that waits for a Connection has sent nothing; it leaves the wait
\* only by taking a Connection out of the pool, or with a timeout error.
C6_WaitsForConnection ==
    [][\A t \in Tasks :
          task[t].pc = "want_conn" =>
              /\ Sent(t) = {}
              /\ \/ task'[t] = task[t]
                 \/ /\ connection_pool # <<>>
                    /\ task'[t].pc = "reading" /\ task'[t].conn = Head(connection_pool)
                 \/ /\ task[t].call = NoCall /\ task'[t].pc = "idle"
                    /\ result' = [NoResult EXCEPT !.op = task[t].op,
                                                  !.exc = "TimeoutError"]
                 \/ /\ task[t].call # NoCall
                    /\ LET after == IF task'[t].pc = "idle" THEN result'.call
                                     ELSE task'[t].call
                       IN /\ Len(after.outcome) > Len(task[t].call.outcome)
                          /\ after.outcome[task[t].call.step] = "TimeoutError"]_vars

\* every Connection was held when the command came for one, and the command
\* is in its exchange now
C6_ProceededAfterWait ==
    \E t \in Tasks : task[t].pc = "reading" /\ task[t].waited

\* the resource name the command of a caller-side variable maps to
ResourceOf(v) == LockFor(command_map[v])

\* C7: two puts that resolve to the same resource lock are never past the lock
\* together; the lock is held from before the ID checkout to the end of the
\* exchange, and by no command that has ended or that still waits for it.
C7_PutsSerialized ==
    /\ \A t, u \in InFlight :
          (t # u /\ task[t].op = "put" /\ task[u].op = "put"
               /\ ResourceOf(task[t].variable) # "none")
              => ResourceOf(task[t].variable) # ResourceOf(task[u].variable)
    /\ \A t \in InFlight :
          (task[t].op = "put" /\ ResourceOf(task[t].variable) # "none")
              => resource_locks[ResourceOf(task[t].variable)] = t
    /\ \A r \in Resources : resource_locks[r] # 0 => resource_locks[r] \in InFlight

\* a put is in its exchange while another put on the same resource waits for
\* the lock
C7_SecondPutWaits ==
    \E t, u \in Tasks :
        /\ task[t].pc = "reading" /\ task[t].op = "put"
        /\ task[u].pc = "wait_lock" /\ task[u].lock = task[t].lock

C10_OwnReplyOnly ==
    (iris_result.op # "none" /\ iris_result.exc = "none") => iris_result.by = "own"

\* the UDP commands between `datagram sent` and the end of their exchange
IrisInFlight == {t \in IrisTasks : iris_task[t].pc = "waiting"}

\* C11: at most one UDP command is between its datagram and the end of its
\* exchange; it holds the in-flight mutex, every request the camera holds for a
\* running command is its request, and the mutex is held by no command that has
\* ended.
C11_SingleInFlight ==
    /\ Cardinality(IrisInFlight) <= 1
    /\ \A t \in IrisInFlight : iris_lock = t
    /\ iris_lock # 0 => iris_lock \in IrisInFlight
    /\ \A q \in device : q.owner # 0 => q.owner \in IrisInFlight

\* a command waits for the mutex while another is in its exchange, after an
\* earlier command has ended
C11_SecondWaitsForMutex ==
    /\ \E t, u \in IrisTasks : iris_task[t].pc = "waiting" /\ iris_task[u].pc = "wait_lock"
    /\ iris_result.op # "none"

\* the step in which the UDP command of caller t leaves its exchange
IrisExits(t) == iris_task[t].pc = "waiting" /\ iris_task'[t].pc = "idle"

\* C12: a UDP command that ends with a response timeout leaves the connector
\* connected with its transport open; one that ends with any other exception
\* leaves it disconnected with the transport gone; while the connector is
\* disconnected no command sends, and only connect() connects it again.
C12_FailureHandling ==
    [][/\ \A t \in IrisTasks :
             IrisExits(t) =>
                 CASE iris_result'.exc = "TimeoutError" ->
                          /\ iris_connected /\ iris_connected'
                          /\ iris_transport = "open" /\ iris_transport' = "open"
                   [] iris_result'.exc = "none" ->
                          iris_connected' = iris_connected /\ iris_transport' = iris_transport
                   [] OTHER -> ~iris_connected' /\ iris_transport' = "None"
       /\ \A t \in IrisTasks :
             (~iris_connected /\ iris_task[t].pc # "waiting")
                 => /\ iris_task'[t].pc # "waiting"
                    /\ device' = device
                    /\ (iris_task[t].pc = "wait_lock" /\ iris_task'[t].pc = "idle")
                          => iris_result'.exc = "ConnectionError"
       /\ (~iris_connected /\ iris_connected') => niris'[2] = niris[2] + 1]_vars

\* a command has ended on a reply without the success marker and the connector
\* is disconnected
C12_DisconnectedByFailure ==
    /\ iris_result.exc = "RuntimeError"
    /\ ~iris_connected /\ iris_transport = "None"

\* C13: the ConnectionError of a get or put on a connector that is not connected
\* reaches the caller as an exception, not as a null value or a failure status.
C13_NotConnectedPropagates ==
    (result.op # "none" /\ result.exc = "ConnectionError")
        => Returned(result.op, result.exc, result.value) = "raise"

\* a get or put was called on the connector while it was not connected; nothing
\* was sent and no pool item is out
C13_CalledNotConnected ==
    /\ result.exc = "ConnectionError" /\ ~connected
    /\ \A t \in Tasks : task[t] = IdleTask
    /\ \A c \in Conns : peer[c] = {}

\* the exceptions of an unknown mapping, a COMMAND FAILED or error response, and
\* a timeout
Reported == {"KeyError", "RuntimeError", "TimeoutError"}

\* the null value of get, the failure status of put
Failure(op) == IF op = "get" THEN "None" ELSE "status_failed"

\* C14: for an unknown mapping, a COMMAND FAILED / error response or a timeout,
\* get returns None and put a failure status, on both connectors, and nothing is
\* raised; an invocation that ends at the mapping lookup (or at the connected
\* check) checks out nothing and sends nothing.
C14_NeverRaises ==
    [][/\ result'.exc \in Reported
            => Returned(result'.op, result'.exc, result'.value) = Failure(result'.op)
       /\ iris_result'.exc \in Reported
            => IrisReturned(iris_result'.op, iris_result'.exc) = Failure(iris_result'.op)
       /\ (ncmd' # ncmd /\ task' = task)
            => /\ result'.exc \in {"KeyError", "ConnectionError"}
               /\ UNCHANGED <<id_pool, connection_pool, resource_locks, wire>>
       /\ (niris'[1] # niris[1] /\ iris_task' = iris_task)
            => /\ iris_result'.exc \in {"KeyError", "ConnectionError"}
               /\ UNCHANGED <<iris_lock, response_future, device>>]_vars

\* a put has ended on COMMAND FAILED
C14_PutFailed ==
    result.op = "put" /\ result.exc = "RuntimeError"

(* ------------------------------ call() ---------------------------------- *)

\* the steps of the action a call record belongs to
StepsOf(c) ==
    IF c.fn \in DOMAIN actions_map THEN actions_map[c.fn] ELSE iris_actions_map[c.fn]

\* the calls that are running, and the last one that returned, on either connector
RunningCalls ==
    {task[t].call : t \in Tasks} \cup {iris_task[t].call : t \in IrisTasks}

ReturnedCalls == {result.call, iris_result.call}

\* every step that ended so far ended without an exception
Normal(c) == \A k \in 1..Len(c.outcome) : c.outcome[k] = "none"

\* C15: the steps of an action are sent in the configured order, one at a time:
\* the requests written so far are steps in strictly increasing order, a step is
\* written only when every step before it has ended, and while no step has
\* failed the written steps are 1, 2, ... without a gap; an action that returns
\* completed after a normal run has written every step once. On both connectors.
C15_StepsInOrder ==
    /\ \A c \in (RunningCalls \cup ReturnedCalls) \ {NoCall} :
          /\ \A i \in 1..Len(c.sent) :
                /\ c.sent[i] \in 1..Len(StepsOf(c))
                /\ c.sent[i] <= Len(c.outcome) + 1
                /\ \A j \in 1..(i - 1) : c.sent[j] < c.sent[i]
          /\ Normal(c) => \A i \in 1..Len(c.sent) : c.sent[i] = i
          /\ Normal(c) => Len(c.sent) >= Len(c.outcome)
    /\ \A c \in RunningCalls \ {NoCall} :
          Len(c.outcome) = c.step - 1 /\ c.step <= Len(StepsOf(c))
    /\ \A r \in {result, iris_result} :
          (r.call # NoCall /\ r.exc = "none" /\ Normal(r.call))
              => r.call.sent = [i \in 1..Len(StepsOf(r.call)) |-> i]

\* a two-step action on the TCP connector has run normally to its end
C15_BothStepsSent ==
    /\ result.op = "call" /\ result.exc = "none"
    /\ result.call.sent = <<1, 2>>
    /\ result.call.outcome = <<"none", "none">>

\* a protocol failure, a timeout or a not-connected error of a step
StepFailures == {"RuntimeError", "TimeoutError", "ConnectionError"}

\* call() returned for a known action, on the connector whose result r is
ReportsOutcome(r) ==
    (r.op = "call" /\ r.call # NoCall) =>
        /\ (\E k \in 1..Len(r.call.outcome) : r.call.outcome[k] \in StepFailures)
              => CallStatus(r) = "failed"
        /\ CallStatus(r) = "completed"
              => /\ Len(r.call.outcome) = Len(StepsOf(r.call))
                 /\ Normal(r.call)

MissingArgument(r) == r.op = "call" /\ r.exc = "ValueError"

LastReturned(k, op) ==
    /\ ctl[k].pc = "idle" /\ ctl[k].op = op
    /\ \A j \in Callers \ {k} : ctl[j] = IdleCtl

\* the number of IDs one connect() puts into the ID pool
IdCount == id_range[2] - id_range[1] + 1

\* C18: a connect() that follows a connect() which opened every session adds no
\* ID to the ID pool and opens no session; a disconnect() that follows a
\* disconnect() on the disconnected connector finds nothing to close.
C18_Idempotent ==
    [][\A k \in Callers :
         /\ (/\ LastReturned(k, "connect") /\ ctl[k].made = pool_size
             /\ nconnect' = nconnect + 1)
               => /\ id_pool' = id_pool
                  /\ \A j \in Callers : SlotsOf(j) = {}
                  /\ ctl'[k].ret = "True"
         /\ (/\ LastReturned(k, "disconnect") /\ ~connected
             /\ nconnect' = nconnect /\ task' = task)
               => /\ \A j \in Callers : ctl'[j].pc = "idle"
                  /\ UNCHANGED <<connection_pool, sock, connected>>]_vars

\* connect() has been called again after a connect() that opened every session,
\* and the IDs are in the ID pool twice
C18_ConnectCalledAgain ==
    \E k \in Callers :
        /\ ctl[k].pc = "gather" /\ nconnect = 2
        /\ \A j \in Callers \ {k} : ctl[j] = IdleCtl
        /\ Len(id_pool) = 2 * IdCount

\* the Connections that commands have taken out of the pool
CheckedOut == {task[t].conn : t \in Tasks} \ {NoConn}

\* disconnect() is at `await conn.writer.wait_closed()`
Closing(k) == ctl[k].pc = "closing"

\* C19: disconnect() closes only Connections it finds in the pool (those that
\* were there, or that the failing connect() calling it has just put there),
\* never one a command has checked out, and whatever the commands in flight do
\* (also when they never finish) a disconnect() that has started returns.
C19_DisconnectTerminates ==
    /\ [][\A c \in Conns :
            (sock[c] = "open" /\ sock'[c] = "closed")
                => /\ \/ \E i \in 1..Len(connection_pool) : connection_pool[i] = c
                      \/ \E k \in Callers : \E i \in Slots : slot[k][i].conn = c
                   /\ c \notin CheckedOut]_vars
    /\ \A k \in Callers : Closing(k) ~> (ctl[k].pc = "idle")

\* disconnect() is closing a Connection of the pool while a command holds another
C19_ClosingWhileCheckedOut ==
    \E k \in Callers : Closing(k) /\ CheckedOut # {}

\* disconnect() was the last of the connect() / disconnect() calls and has returned
DisconnectReturned ==
    \E k \in Callers :
        /\ ctl[k].pc = "idle" /\ ctl[k].op = "disconnect"
        /\ \A j \in Callers \ {k} : ctl[j].pc = "idle" /\ ctl[j].op # "connect"

ConnectFailed(k) ==
    /\ ctl[k].pc = "idle" /\ ctl[k].op = "connect" /\ ctl[k].ret = "False"
    /\ \A j \in Callers \ {k} : ctl[j] = IdleCtl

\* C21: when connect() reports failure, no session it opened is still open and
\* the connection pool is empty.
C21_NothingLeftOpen ==
    \A k \in Callers :
        ConnectFailed(k) => /\ \A c \in Conns : sock[c] # "open"
                            /\ connection_pool = <<>>

\* the first connect() has reported failure after it established one session
\* (closed by its disconnect()) and opened another that failed its negotiation
C21_FailedAfterOpening ==
    \E k \in Callers :
        /\ ConnectFailed(k) /\ nconnect = 1 /\ ctl[k].made = 1
        /\ \E c, d \in Conns : sock[c] = "closed" /\ sock[d] = "open"

\* the sessions in the connection pool
Pooled(pool) == {pool[n] : n \in 1..Len(pool)}

\* the step in which connect() of caller k is cancelled
Cancelled(k) == ctl[k].pc = "gather" /\ ctl'[k].ret = "cancelled"

\* the sessions the creation tasks of caller k hold
OpenedBy(k) == {slot[k][i].conn : i \in SlotsOf(k)} \ {NoConn}

\* C26: cancelling connect() while it opens its sessions closes every session
\* that was open at that moment; none is left open and unreferenced.
C26_CancelClosesOpened ==
    [][\A k \in Callers :
          Cancelled(k) => \A c \in OpenedBy(k) :
                             sock[c] = "open" => sock'[c] # "open" \/ c \in Pooled(connection_pool')]_vars

\* the first connect() was cancelled after it had opened a session, and the
\* session is open and in no pool
C26_CancelledAfterOpening ==
    \E k \in Callers :
        /\ ctl[k].pc = "idle" /\ ctl[k].ret = "cancelled" /\ nconnect = 1
        /\ \A j \in Callers \ {k} : ctl[j] = IdleCtl
        /\ \E c \in Conns : sock[c] = "open" /\ c \notin Pooled(connection_pool)

(* ------------------------- session creation -------------------------- *)

\* C22: 'ENC TLS' is sent (the task passes to "enc") exactly when the greeting
\* read holds the token TLS, and no handshake starts on the greeting; the TLS
\* handshake starts (the task passes to "tls") only from "enc" and only when the
\* reply read holds ENC OK; with another reply or none the task fails, and the
\* session of a failed task is not put into the pool.
C22_TlsGating ==
    [][\A k \in Callers : \A i \in Slots :
         LET s == slot[k][i]
             n == slot'[k][i]
         IN /\ (s.pc = "greeting" /\ n.pc # "greeting")
                  => /\ (n.pc = "enc") <=> (s.heard = "tls")
                     /\ n.pc # "tls"
            /\ (n.pc = "enc" /\ s.pc # "enc") => s.pc = "greeting"
            /\ (n.pc = "tls" /\ s.pc # "tls") => (s.pc = "enc" /\ s.heard = "enc_ok")
            /\ (s.pc = "enc" /\ n.pc # "enc" /\ s.heard # "enc_ok") => n.pc = "failed"
            /\ (s.pc = "failed" /\ s.conn # NoConn)
                  => /\ s.conn \notin Pooled(connection_pool')
                     /\ sock'[s.conn] = sock[s.conn]]_vars

\* a creation task has read ENC OK and is in the TLS handshake, while another
\* has failed on its reply
C22_HandshakeStarted ==
    \E k \in Callers : \E i, j \in Slots :
        /\ slot[k][i].pc = "tls"
        /\ slot[k][j].pc = "failed" /\ slot[k][j].conn # NoConn

(* ------------------------ response lines ------------------------------ *)

\* execute() reads the line that has arrived
ReadsLine == probe.fn = "execute" /\ probe.arrived /\ ~probe'.arrived

\* the line as execute() looks at it, and the prefixes it is compared with
LineRead == Strip(probe.line)
OwnPrefix == Str(probe.cmd_id) \o <<" ">>
IsValueLine == StartsWith(LineRead, OwnPrefix) /\ Contains(LineRead, "=")
IsComplete == StartsWith(LineRead, OwnPrefix \o <<"C">>)
IsFailed == StartsWith(LineRead, OwnPrefix \o <<"F">>)

\* what a value line, a terminal line and a line of another ID do, apart from
\* whether a value line ends the wait
LineEffects ==
    /\ IsValueLine
          => probe'.value = [set |-> TRUE, text |-> Strip(AfterFirst(LineRead, "="))]
    /\ IsComplete
          => /\ probe'.out = "returned"
             /\ probe'.ret = IF probe'.value.set THEN probe'.value.text ELSE OkText
    /\ (IsFailed /\ ~IsComplete) => probe'.out = "RuntimeError"
    /\ ~StartsWith(LineRead, OwnPrefix)
          => probe'.value = probe.value /\ probe'.out = "reading"
    /\ ~IsValueLine => probe'.value = probe.value

\* C23: a line starting with 'i ' that contains '=' records its value
\* and does not end the wait; 'i COMMAND COMPLETE' ends the command with the
\* pending value or OK; 'i COMMAND FAILED' ends it with an error; a line not
\* starting with 'i ' changes nothing.
C23_ValueLineNeverEnds ==
    [][ReadsLine => (LineEffects /\ (IsValueLine => probe'.out = "reading"))]_vars

\* what execute() does for every line: the effects above, and the wait ends
\* exactly on a line starting with 'i COMMAND COMPLETE' or 'i COMMAND FAILED',
\* whether or not that line contains '='
LineMachine ==
    [][ReadsLine =>
          /\ LineEffects
          /\ (~IsComplete /\ ~IsFailed) => probe'.out = "reading"]_vars

\* a line has arrived that starts with 'i COMMAND FAILED' and contains '='
C23_TerminalLineWithValue ==
    /\ probe.fn = "execute" /\ probe.arrived
    /\ IsValueLine /\ IsFailed

(* --------------------------- resource locks --------------------------- *)

FirstZero(data) ==
    IF \E n \in 1..Len(data) : data[n] = 0
    THEN CHOOSE n \in 1..Len(data) : data[n] = 0 /\ \A j \in 1..(n - 1) : data[j] # 0
    ELSE Len(data) + 1

\* the text of a datagram: its bytes before the first zero byte, as characters
TextOf(data) == [n \in 1..(FirstZero(data) - 1) |-> CharOf(data[n])]

\* s without the blanks at its ends, given as the part of s between its first
\* and its last character that is no blank
Trimmed(s) ==
    LET solid == {n \in 1..Len(s) : s[n] # " "}
    IN IF solid = {} THEN <<>>
       ELSE LET lo == CHOOSE n \in solid : \A m \in solid : n <= m
                hi == CHOOSE n \in solid : \A m \in solid : m <= n
            IN [n \in 1..(hi - lo + 1) |-> s[lo + n - 1]]

\* C25: a command whose encoding is shorter than packet_size is sent as its
\* bytes followed by zero bytes up to exactly packet_size; the received datagram
\* is cut at its first zero byte; a text that begins with '**** OKAY' gives the
\* text behind its first 10 characters, trimmed; any other text is a failure.
C25_Framing ==
    probe.fn = "framing" =>
        LET bytes == Encode(probe.command)
            text == TextOf(probe.data)
            marked == /\ Len(text) >= 9
                      /\ \A n \in 1..9 : text[n] = Marker[n]
        IN /\ (probe.out # "start" /\ Len(bytes) < probe.packet_size)
                 => /\ Len(probe.packet) = probe.packet_size
                    /\ \A n \in 1..Len(bytes) : probe.packet[n] = bytes[n]
                    /\ \A n \in (Len(bytes) + 1)..probe.packet_size : probe.packet[n] = 0
           /\ probe.out = "returned"
                 => /\ marked
                    /\ probe.ret = Trimmed([n \in 1..(Len(text) - 10) |-> text[n + 10]])
           /\ (probe.out \notin {"start", "sent"} /\ ~marked) => probe.out # "returned"
           /\ (probe.out \notin {"start", "sent"} /\ marked
                  /\ \A n \in 1..(FirstZero(probe.data) - 1) : probe.data[n] < 128)
                 => probe.out = "returned"

\* the datagram '**** OKAY f' followed by a zero byte has given 'f', for a
\* command that was padded
C25_OkayPayload ==
    /\ probe.fn = "framing" /\ probe.out = "returned"
    /\ probe.data = MarkerBytes \o <<32, 102, 0>>
    /\ probe.ret = <<"f">>
    /\ Len(Encode(probe.command)) < probe.packet_size

(* ------------------------------ ID pool ------------------------------- *)

\* C27: after every connect(), also one that follows a disconnect() or a failed
\* connect(), the ID pool holds each integer of [lo, hi] exactly once when no
\* command is in flight.
C27_EachIdOnce ==
    \A k \in Callers :
        (LastReturned(k, "connect") /\ InFlight = {})
            => /\ Len(id_pool) = IdCount
               /\ \A x \in id_range[1]..id_range[2] : Count(id_pool, x) = 1

\* a second connect() has returned after the first one failed, and the ID pool
\* holds every ID twice
C27_PopulatedTwice ==
    \E k \in Callers :
        /\ LastReturned(k, "connect") /\ InFlight = {} /\ nconnect = 2
        /\ \A x \in id_range[1]..id_range[2] : Count(id_pool, x) = 2

ExchangeEndsPooled ==
    [][\A t \in Tasks :
          (Exits(t) /\ task[t].conn # NoConn)
              => /\ Count(connection_pool', task[t].conn)
                      = Count(connection_pool, task[t].conn) + 1
                 /\ Len(connection_pool') = Len(connection_pool) + 1
                 /\ connected' = connected
                 /\ UNCHANGED <<sock, peer_eof>>
                 /\ task[t].broken => result'.exc # "none" \/ result'.by = "stale"]_vars

Writes(t) == task[t].pc = "want_conn" /\ task'[t].pc = "reading"

InCall == {t \in Tasks : task[t].call.fn # "none"}
InIrisCall == {t \in IrisTasks : iris_task[t].call.fn # "none"}

\* the step in which a step of the action of caller t ends
StepEnds(t) == t \in InCall /\ task[t].pc = "reading" /\ task'[t].call # task[t].call
IrisStepEnds(t) ==
    t \in InIrisCall /\ iris_task[t].pc = "waiting" /\ iris_task'[t].call # iris_task[t].call

\* C34: an action takes and releases the resource lock, the ID and the
\* Connection (TCP), or the in-flight mutex (UDP), for each step on its own: it
\* holds a lock only inside the exchange of the step the lock belongs to, the end
\* of a step gives back what the step held, and a command that waits for the lock
\* or the mutex at that moment goes before the next step.
C34_HeldPerStep ==
    /\ \A t \in InCall : \A r \in Resources :
          resource_locks[r] = t
              => /\ t \in InFlight
                 /\ r = ResourceOf(actions_map[task[t].call.fn][task[t].call.step].variable)
    /\ \A t \in InCall \ InFlight : task[t].cmd_id = None /\ task[t].conn = NoConn
    /\ \A t \in InIrisCall : iris_lock = t => iris_task[t].pc = "waiting"
    /\ [][\A t \in Tasks :
            StepEnds(t)
                => /\ Count(connection_pool', task[t].conn)
                        = Count(connection_pool, task[t].conn) + 1
                   /\ Count(id_pool', task[t].cmd_id) = Count(id_pool, task[t].cmd_id) + 1
                   /\ task'[t].cmd_id = None /\ task'[t].conn = NoConn
                   /\ \A r \in Resources :
                         (\E u \in Tasks \ {t} : task[u].pc = "wait_lock" /\ task[u].lock = r)
                             => resource_locks'[r] # t]_vars
    /\ [][\A t \in IrisTasks :
            (IrisStepEnds(t) /\ \E u \in IrisTasks \ {t} : iris_task[u].pc = "wait_lock")
                => iris_lock' = 0 /\ iris_task'[t].pc # "waiting"]_vars

\* the first step of an action has ended and its second step is not written
\* yet, and the put of another caller on the variable of the first step, same
\* resource, is in its exchange
C34_PutBetweenSteps ==
    \E t \in InCall : \E u \in Tasks \ InCall :
        /\ task[t].call.sent = <<1>> /\ Len(task[t].call.outcome) = 1
        /\ task[u].pc = "reading" /\ task[u].op = "put"
        /\ task[u].variable = actions_map[task[t].call.fn][1].variable
        /\ ResourceOf(task[u].variable) \in Resources
        /\ resource_locks[ResourceOf(task[u].variable)] = u

\* the same on the UDP connector: a command of another caller is in its
\* exchange between the first and the second step of an action
IrisCommandBetweenSteps ==
    \E t \in InIrisCall : \E u \in IrisTasks \ InIrisCall :
        /\ iris_task[t].call.sent = <<1>> /\ Len(iris_task[t].call.outcome) = 1
        /\ iris_task[u].pc = "waiting" /\ iris_lock = u

====
